---- MODULE Spec2Model ----
(***************************************************************************)
(* A model of asana_mailer.py: Project.create_project (comment fetch loop, *)
(* Section.create_sections, Project.filter_tasks), the comment selector    *)
(* filters, and main (argument validation, project creation, rendering,    *)
(* delivery).                                                              *)
(*                                                                         *)
(* Python values are modelled as follows.                                  *)
(*   - a unicode string that the code inspects (a task or section name) is *)
(*     a sequence of one-character strings, so that endswith(':') and      *)
(*     section + ':' are computed;                                         *)
(*   - an optional value is NoneVal (= <<>>) or Some(v) (= <<v>>);         *)
(*   - a dict is a function on the set of its keys;                        *)
(*   - an object compared by identity (Section) carries an object id oid.  *)
(***************************************************************************)
EXTENDS Integers, Sequences, FiniteSets, TLC

VARIABLES
    project_tasks_json,  \* the task list returned by projects.tasks
    api_stories,         \* api_stories[id]: what tasks.stories(id) returns
    section_filters,     \* frozenset of section names
    task_filters,        \* frozenset of tag names
    task_comments,       \* dict built by the fetch loop of create_project
    sections,            \* project.sections
    pc,                  \* position inside create_project
    task_in,             \* argument task_comments of a comment filter
    num_comments,        \* argument num_comments of most_recent_comments
    now,                 \* current_time_utc: ticks for the comment filters,
                         \* a Datetime in main
    hours,               \* argument hours of comments_within_lookback
    result,              \* outcome of the last comment filter call
    cpc,                 \* which comment filter ran last
    cli,                 \* the command line given to main
    args,                \* the namespace produced by parser.parse_args()
    completed_since,     \* tasks_params['completed_since']
    trace,               \* external calls and log lines of main, in order
    mail_failure,        \* what went wrong inside send_email's try block
    mpc                  \* position inside main

vars == <<project_tasks_json, api_stories, section_filters, task_filters,
          task_comments, sections, pc, task_in, num_comments, now, hours,
          result, cpc, cli, args, completed_since, trace, mail_failure, mpc>>

projectVars == <<project_tasks_json, api_stories, section_filters,
                 task_filters, task_comments, sections, pc>>
commentVars == <<task_in, num_comments, now, hours, result, cpc>>
mainVars == <<cli, args, completed_since, trace, mail_failure, mpc>>

(***************************************************************************)
(* Bounds of the model.                                                    *)
(***************************************************************************)
MaxTasks == 4
MaxSections == 2
MaxSectionTasks == 2
MaxComments == 3
MaxTime == 3
MaxHours == 2
MaxNum == 4

(***************************************************************************)
(* Python values.                                                          *)
(***************************************************************************)
NoneVal == <<>>
Some(v) == <<v>>

SeqsUpTo(S, n) == UNION {[1..k -> S] : k \in 0..n}

Range(s) == {s[i] : i \in DOMAIN s}

EmptyDict == [k \in {} |-> <<>>]

\* dict.get(key): the value, or None
DictGet(d, k) == IF k \in DOMAIN d THEN Some(d[k]) ELSE NoneVal

\* d[key] = value
DictSet(d, k, v) == [x \in DOMAIN d \cup {k} |-> IF x = k THEN v ELSE d[x]]

\* a datetime of main: whole ticks and the microseconds past them
Datetime(ticks, microsecond) == [ticks |-> ticks, microsecond |-> microsecond]

\* name.endswith(':')
EndsWithColon(name) == Len(name) > 0 /\ name[Len(name)] = ":"

MiscName == <<"M", "i", "s", "c", ":">>
NameA == <<"A", ":">>
NameB == <<"B", ":">>
TaskName == <<"t">>

(***************************************************************************)
(* Project.create_project: the comment fetch loop.                         *)
(***************************************************************************)
\* [story for story in task_stories if story[u'type'] == u'comment']
CommentStories(task_stories) ==
    SelectSeq(task_stories, LAMBDA story : story.type = "comment")

\* frozenset(tags) >= tag_filter_set
TagsIn(tags, tag_filter_set) == tag_filter_set \subseteq Range(tags)

\* the value of current_section after the marker test of one iteration
FetchSection(current_section, task) ==
    IF EndsWithColon(task.name) THEN Some(task.name) ELSE current_section

\* not (section_filters and current_section not in section_filters)
FetchPassesSection(current_section, sf) ==
    sf = {} \/ (current_section # NoneVal /\ current_section[1] \in sf)

\* one iteration of the loop over project_tasks_json; fetched lists the ids
\* tasks.stories was called for
FetchStep(st, task, stories, sf, tf) ==
    LET cs == FetchSection(st.current_section, task)
        comments == CommentStories(stories[task.id])
        skipped == [st EXCEPT !.current_section = cs]
        called == [skipped EXCEPT !.fetched = Append(@, task.id)]
    IN  IF ~FetchPassesSection(cs, sf) THEN skipped
        ELSE IF tf # {} /\ ~TagsIn(task.tags, tf) THEN skipped
        ELSE IF comments # <<>>
        THEN [called EXCEPT
                !.task_comments = DictSet(@, task.id, comments)]
        ELSE called

RECURSIVE FetchLoop(_, _, _, _, _)
FetchLoop(st, tasks, stories, sf, tf) ==
    IF tasks = <<>> THEN st
    ELSE FetchLoop(FetchStep(st, Head(tasks), stories, sf, tf),
                   Tail(tasks), stories, sf, tf)

FetchAll(tasks, stories, sf, tf) ==
    FetchLoop([current_section |-> NoneVal, task_comments |-> EmptyDict,
               fetched |-> <<>>],
              tasks, stories, sf, tf)

FetchComments(tasks, stories, sf, tf) ==
    FetchAll(tasks, stories, sf, tf).task_comments

(***************************************************************************)
(* Section.create_sections.                                                *)
(***************************************************************************)
\* Section(name): a new object, identified by oid
Section(name, oid) == [name |-> name, tasks |-> <<>>, oid |-> oid]

\* Task(...) built from one task record and the comment dict
ParseTask(task, comments) ==
    [name |-> task.name, tags |-> task.tags,
     comments |-> DictGet(comments, task.id)]

\* current_section.tasks and current_section.name != u'Misc:'
SwitchAppendsMutNoTaskCheck(current_section) ==
    current_section.name # MiscName

SwitchAppends(current_section) ==
    current_section.tasks # <<>> /\ current_section.name # MiscName

\* one iteration of the loop over project_tasks_json
SectionStep(st, task, comments) ==
    IF EndsWithColon(task.name)
    THEN [sections |-> IF SwitchAppends(st.current_section)
                       THEN Append(st.sections, st.current_section)
                       ELSE st.sections,
          current_section |-> Section(task.name, task.id),
          misc_section |-> st.misc_section]
    ELSE LET grown == [st.current_section EXCEPT
                          !.tasks = Append(@, ParseTask(task, comments))]
         IN  [sections |-> st.sections,
              current_section |-> grown,
              misc_section |-> IF st.current_section.oid = st.misc_section.oid
                               THEN grown ELSE st.misc_section]

RECURSIVE SectionLoop(_, _, _)
SectionLoop(st, tasks, comments) ==
    IF tasks = <<>> THEN st
    ELSE SectionLoop(SectionStep(st, Head(tasks), comments),
                     Tail(tasks), comments)

\* misc_section.tasks and current_section != misc_section
MiscAppendsMutNoIdentityCheck(st) == st.misc_section.tasks # <<>>

MiscAppends(st) ==
    st.misc_section.tasks # <<>> /\ st.current_section.oid # st.misc_section.oid

\* the two appends after the loop
SectionFinish(st) ==
    LET s1 == IF st.current_section.tasks # <<>>
              THEN Append(st.sections, st.current_section)
              ELSE st.sections
    IN  IF MiscAppends(st) THEN Append(s1, st.misc_section) ELSE s1

CreateSections(tasks, comments) ==
    SectionFinish(
        SectionLoop([sections |-> <<>>,
                     current_section |-> Section(MiscName, 0),
                     misc_section |-> Section(MiscName, 0)],
                    tasks, comments))

(***************************************************************************)
(* Project.filter_tasks.                                                   *)
(***************************************************************************)
\* [s for s in self.sections if s.name in section_filters]
FilterSections(secs, sf) ==
    IF sf # {} THEN SelectSeq(secs, LAMBDA s : s.name \in sf) ELSE secs

\* section.tasks[:] = [task for task in section.tasks if task.tags_in(...)]
FilterSectionTasks(secs, tf) ==
    IF tf # {}
    THEN [i \in DOMAIN secs |->
            [secs[i] EXCEPT
               !.tasks = SelectSeq(@, LAMBDA task : TagsIn(task.tags, tf))]]
    ELSE secs

\* [s for s in self.sections if s.tasks]
RemoveEmptyMutKeepAll(secs) == secs

RemoveEmpty(secs) == SelectSeq(secs, LAMBDA s : s.tasks # <<>>)

\* the empty sections removed first, the filters applied afterwards
FilterTasksMutPruneFirst(secs, sf, tf) ==
    FilterSectionTasks(FilterSections(RemoveEmpty(secs), sf), tf)

FilterTasks(secs, sf, tf) ==
    RemoveEmpty(FilterSectionTasks(FilterSections(secs, sf), tf))

CreateProject(tasks, stories, sf, tf) ==
    FilterTasks(CreateSections(tasks, FetchComments(tasks, stories, sf, tf)),
                sf, tf)

(***************************************************************************)
(* The comment filters of the templates.                                   *)
(***************************************************************************)
TicksPerHour == 2

Return(v) == [exc |-> "", value |-> v]
Raise(e) == [exc |-> e, value |-> <<>>]

\* s[-n:] of a Python list
SliceLast(s, n) ==
    LET start == IF n <= 0 THEN 0
                 ELSE IF n > Len(s) THEN 0 ELSE Len(s) - n
    IN  SubSeq(s, start + 1, Len(s))

\* last_comment(task_comments)
LastComment(tc) ==
    IF tc # NoneVal /\ tc[1] # <<>> THEN Return(SliceLast(tc[1], 1))
    ELSE Return(<<>>)

\* the clamping of num_comments; len(None) raises TypeError
ClampNum(tc, n) ==
    IF n <= 0 THEN 1
    ELSE IF n > Len(tc[1]) THEN Len(tc[1]) ELSE n

\* most_recent_comments(task_comments, num_comments)
MostRecentComments(tc, n) ==
    IF n > 0 /\ tc = NoneVal THEN Raise("TypeError")
    ELSE IF tc # NoneVal /\ tc[1] # <<>>
         THEN Return(SliceLast(tc[1], ClampNum(tc, n)))
         ELSE Return(<<>>)

\* datetime.timedelta(hours=hours)
Timedelta(h) == h * TicksPerHour

\* delta < datetime.timedelta(hours=hours)
WithinMutInclusive(comment, t, h) == t - comment.created_at <= Timedelta(h)

Within(comment, t, h) == t - comment.created_at < Timedelta(h)

\* comments_within_lookback(task_comments, current_time_utc, hours);
\* iterating over None raises TypeError
CommentsWithinLookback(tc, t, h) ==
    IF tc = NoneVal THEN Raise("TypeError")
    ELSE LET filtered == SelectSeq(tc[1], LAMBDA c : Within(c, t, h))
         IN  IF filtered = <<>> /\ tc[1] # <<>>
             THEN Return(<<tc[1][Len(tc[1])]>>)
             ELSE Return(filtered)

(***************************************************************************)
(* Inputs.                                                                 *)
(***************************************************************************)
Tags == {"x"}
TagLists == {<<>>, <<"x">>}

\* what tasks.stories returns for task id: nothing, or a system story
\* followed by a comment
StoryKinds == {"none", "comment"}
StoriesOf(kind, id) ==
    IF kind = "none" THEN <<>>
    ELSE <<[type |-> "system", target |-> id],
           [type |-> "comment", target |-> id]>>

MarkerRows ==
    {[name |-> n, tags |-> <<>>, stories |-> "none"] :
        n \in {NameA, NameB, MiscName}}
TaskRows ==
    {[name |-> TaskName, tags |-> t, stories |-> k] :
        t \in TagLists, k \in StoryKinds}
Rows == MarkerRows \cup TaskRows

TasksJson(rows) ==
    [i \in DOMAIN rows |->
        [id |-> i, name |-> rows[i].name, tags |-> rows[i].tags]]
StoriesJson(rows) ==
    [i \in DOMAIN rows |-> StoriesOf(rows[i].stories, i)]

SectionFilterSets == SUBSET {NameA, MiscName}
TagFilterSets == SUBSET Tags

NoResult == Return(<<>>)
NoArgs ==
    [from_address |-> NoneVal, to_addresses |-> NoneVal,
     skip_inline_css |-> TRUE, completed_lookback_hours |-> NoneVal,
     username |-> NoneVal, password |-> NoneVal,
     section_filters |-> {}, tag_filters |-> {}]
NoFailure == [stage |-> "none", kind |-> "none"]

IdleProject ==
    /\ project_tasks_json = <<>>
    /\ api_stories = <<>>
    /\ section_filters = {}
    /\ task_filters = {}
    /\ task_comments = EmptyDict
    /\ sections = <<>>
    /\ pc = "idle"

IdleComments ==
    /\ task_in = NoneVal
    /\ num_comments = 0
    /\ now = 0
    /\ hours = 0
    /\ result = NoResult
    /\ cpc = "idle"

IdleMain ==
    /\ cli = NoArgs
    /\ args = NoArgs
    /\ completed_since = [kind |-> "unset", at |-> Datetime(0, 0)]
    /\ trace = <<>>
    /\ mail_failure = NoFailure
    /\ mpc = "idle"

(***************************************************************************)
(* Project.create_project, in three steps: the comment fetch loop, the     *)
(* call of Section.create_sections, and the call of filter_tasks.          *)
(***************************************************************************)
InitProject ==
    /\ \E rows \in SeqsUpTo(Rows, MaxTasks) :
          /\ project_tasks_json = TasksJson(rows)
          /\ api_stories = StoriesJson(rows)
    /\ section_filters \in SectionFilterSets
    /\ task_filters \in TagFilterSets
    /\ task_comments = EmptyDict
    /\ sections = <<>>
    /\ pc = "start"
    /\ IdleComments
    /\ IdleMain

FetchTaskComments ==
    /\ pc = "start"
    /\ task_comments' = FetchComments(project_tasks_json, api_stories,
                                      section_filters, task_filters)
    /\ pc' = "fetched"
    /\ UNCHANGED <<project_tasks_json, api_stories, section_filters,
                   task_filters, sections, commentVars, mainVars>>

AddSections ==
    /\ pc = "fetched"
    /\ sections' = CreateSections(project_tasks_json, task_comments)
    /\ pc' = "sectioned"
    /\ UNCHANGED <<project_tasks_json, api_stories, section_filters,
                   task_filters, task_comments, commentVars, mainVars>>

FilterTasksStep ==
    /\ pc = "sectioned"
    /\ sections' = FilterTasks(sections, section_filters, task_filters)
    /\ pc' = "done"
    /\ UNCHANGED <<project_tasks_json, api_stories, section_filters,
                   task_filters, task_comments, commentVars, mainVars>>

Next == FetchTaskComments \/ AddSections \/ FilterTasksStep

Spec == InitProject /\ [][Next]_vars

(***************************************************************************)
(* Project.filter_tasks on an arbitrary Project.                           *)
(***************************************************************************)
FilterTags == {"x", "y"}
FilterTagLists == {<<"x">>, <<"y", "x">>}
FilterTasksIn ==
    {[name |-> TaskName, tags |-> t, comments |-> NoneVal] :
        t \in FilterTagLists}
FilterSectionsIn ==
    {[name |-> n, tasks |-> ts, oid |-> 0] :
        n \in {NameA, NameB}, ts \in SeqsUpTo(FilterTasksIn, MaxSectionTasks)}

InitFilter ==
    /\ project_tasks_json = <<>>
    /\ api_stories = <<>>
    /\ section_filters \in SUBSET {NameA, NameB}
    /\ task_filters \in SUBSET FilterTags
    /\ task_comments = EmptyDict
    /\ sections \in SeqsUpTo(FilterSectionsIn, MaxSections)
    /\ pc = "sectioned"
    /\ IdleComments
    /\ IdleMain

NextFilter == FilterTasksStep

SpecFilter == InitFilter /\ [][NextFilter]_vars

(***************************************************************************)
(* The comment filters applied to one comment list.                        *)
(***************************************************************************)
CommentLists ==
    {[i \in DOMAIN ts |-> [id |-> i, created_at |-> ts[i]]] :
        ts \in SeqsUpTo(0..MaxTime, MaxComments)}

InitComments ==
    /\ task_in \in {NoneVal} \cup {Some(l) : l \in CommentLists}
    /\ num_comments \in -1..MaxNum
    /\ now \in {MaxTime - 1, MaxTime}
    /\ hours \in 0..MaxHours
    /\ result = NoResult
    /\ cpc = "input"
    /\ IdleProject
    /\ IdleMain

CallLastComment ==
    /\ cpc = "input"
    /\ result' = LastComment(task_in)
    /\ cpc' = "last_comment"
    /\ UNCHANGED <<task_in, num_comments, now, hours, projectVars, mainVars>>

CallMostRecentComments ==
    /\ cpc = "input"
    /\ result' = MostRecentComments(task_in, num_comments)
    /\ cpc' = "most_recent_comments"
    /\ UNCHANGED <<task_in, num_comments, now, hours, projectVars, mainVars>>

CallCommentsWithinLookback ==
    /\ cpc = "input"
    /\ result' = CommentsWithinLookback(task_in, now, hours)
    /\ cpc' = "comments_within_lookback"
    /\ UNCHANGED <<task_in, num_comments, now, hours, projectVars, mainVars>>

NextComments ==
    CallLastComment \/ CallMostRecentComments \/ CallCommentsWithinLookback

SpecComments == InitComments /\ [][NextComments]_vars

(***************************************************************************)
(* main.                                                                   *)
(***************************************************************************)
\* bool(x) of an optional string, and of an optional list
BoolStr(x) == x # NoneVal /\ x[1] # ""
BoolList(x) == x # NoneVal /\ x[1] # <<>>

\* action='store_false', default=True
StoreFalse(given) == IF given THEN FALSE ELSE TRUE

\* parser.parse_args()
ParseArgs(c) ==
    [from_address |-> c.from_address, to_addresses |-> c.to_addresses,
     skip_inline_css |-> StoreFalse(c.skip_inline_css),
     completed_lookback_hours |-> c.completed_lookback_hours,
     username |-> c.username, password |-> c.password,
     section_filters |-> c.section_filters, tag_filters |-> c.tag_filters]

\* bool(args.from_address) != bool(args.to_addresses)
AddressMismatchMutNever(a) == FALSE

AddressMismatch(a) == BoolStr(a.from_address) # BoolList(a.to_addresses)

\* args.to_addresses and args.from_address
SendsEmail(a) == BoolList(a.to_addresses) /\ BoolStr(a.from_address)

\* frozenset((unicode(section + ':') for section in args.section_filters))
MainSectionFilters(a) == {Append(sec, ":") : sec \in a.section_filters}

\* (t - datetime.timedelta(hours=h)).replace(microsecond=0)
CutoffTime(t, h) == Datetime(t.ticks - Timedelta(h), 0)

\* tasks_params['completed_since']: the cutoff, or the string 'now'
CompletedSince(t, h) ==
    IF h # NoneVal /\ h[1] # 0
    THEN [kind |-> "cutoff", at |-> CutoffTime(t, h[1])]
    ELSE [kind |-> "now", at |-> Datetime(0, 0)]

\* the calls generate_templates makes
GenerateTemplates(skip_inline_css) ==
    <<"html.render">>
    \o (IF skip_inline_css THEN <<>> ELSE <<"premailer.transform">>)
    \o <<"plaintext.render">>

\* except smtplib.SMTPException
CaughtMutNothing(kind) == FALSE

Caught(kind) == kind = "SMTPException"

\* smtp_username is not None and smtp_password is not None
Authenticated(a) == a.username # NoneVal /\ a.password # NoneVal

\* the statements of the try block that can raise
MailStages(a) ==
    IF Authenticated(a) THEN {"connect", "login", "sendmail", "quit"}
    ELSE {"connect", "sendmail", "quit"}

MailFailures(a) ==
    {NoFailure} \cup
    {[stage |-> st, kind |-> k] :
        st \in MailStages(a), k \in {"SMTPException", "socket.error"}}

\* send_email: the calls and log lines it adds, by what went wrong
SendEmail(failure) ==
    IF failure.kind = "none" THEN <<"send_email", "smtp.sendmail", "smtp.quit">>
    ELSE IF Caught(failure.kind)
    THEN <<"send_email", "log.exception: Email could not be sent!">>
    ELSE <<"send_email", "raise">>

SendEmailReturns(failure) == failure.kind = "none" \/ Caught(failure.kind)

Addresses == {NoneVal, Some(""), Some("me@example.com")}
AddressLists == {NoneVal, Some(<<"you@example.com">>)}
Credentials == {NoneVal, Some("secret")}
LookbackHours == {NoneVal, Some(-1), Some(0), Some(1)}

CommandLines ==
    [from_address : Addresses, to_addresses : AddressLists,
     skip_inline_css : BOOLEAN,  \* whether -i/--skip-inline-css is given
     completed_lookback_hours : LookbackHours,
     username : Credentials, password : Credentials,
     section_filters : {{}, {<<"A">>}}, tag_filters : {{}}]

SampleProjects ==
    {<<>>,
     <<[name |-> TaskName, tags |-> <<>>, stories |-> "comment"],
       [name |-> NameA, tags |-> <<>>, stories |-> "none"],
       [name |-> TaskName, tags |-> <<"x">>, stories |-> "comment"]>>}

InitMain ==
    /\ \E rows \in SampleProjects :
          /\ project_tasks_json = TasksJson(rows)
          /\ api_stories = StoriesJson(rows)
    /\ section_filters = {}
    /\ task_filters = {}
    /\ task_comments = EmptyDict
    /\ sections = <<>>
    /\ pc = "start"
    /\ task_in = NoneVal
    /\ num_comments = 0
    /\ now \in {Datetime(MaxTime, us) : us \in {0, 250}}
    /\ hours = 0
    /\ result = NoResult
    /\ cpc = "idle"
    /\ cli \in CommandLines
    /\ args = NoArgs
    /\ completed_since = [kind |-> "unset", at |-> Datetime(0, 0)]
    /\ trace = <<>>
    /\ mail_failure = NoFailure
    /\ mpc = "start"

\* lines 514-519
MainParseArgs ==
    /\ mpc = "start"
    /\ args' = ParseArgs(cli)
    /\ IF AddressMismatch(args')
       THEN /\ trace' = Append(trace, "parser.error")
            /\ mpc' = "rejected"
       ELSE /\ trace' = trace
            /\ mpc' = "parsed"
    /\ UNCHANGED <<projectVars, commentVars, cli, completed_since,
                   mail_failure>>

\* lines 521-530, all API calls succeeding
MainCreateProject ==
    /\ mpc = "parsed"
    /\ LET sf == MainSectionFilters(args)
           tf == args.tag_filters
           fetch == FetchAll(project_tasks_json, api_stories, sf, tf)
       IN  /\ section_filters' = sf
           /\ task_filters' = tf
           /\ completed_since' =
                 CompletedSince(now, args.completed_lookback_hours)
           /\ task_comments' = fetch.task_comments
           /\ sections' = CreateProject(project_tasks_json, api_stories, sf, tf)
           /\ trace' = trace
                 \o <<"asana.projects.find_by_id", "asana.projects.tasks">>
                 \o [i \in DOMAIN fetch.fetched |-> "asana.tasks.stories"]
    /\ pc' = "done"
    /\ mpc' = "project"
    /\ UNCHANGED <<project_tasks_json, api_stories, commentVars, cli, args,
                   mail_failure>>

\* lines 521-530, an API call raising: nothing in main catches it
MainCreateProjectFails ==
    /\ mpc = "parsed"
    /\ LET sf == MainSectionFilters(args)
           tf == args.tag_filters
           fetch == FetchAll(project_tasks_json, api_stories, sf, tf)
       IN  \E call \in {"asana.projects.find_by_id", "asana.projects.tasks",
                        "asana.tasks.stories"} :
              /\ call = "asana.tasks.stories" => fetch.fetched # <<>>
              /\ completed_since' =
                    IF call = "asana.projects.find_by_id" THEN completed_since
                    ELSE CompletedSince(now, args.completed_lookback_hours)
              /\ trace' = trace
                    \o (IF call = "asana.projects.find_by_id" THEN <<>>
                        ELSE IF call = "asana.projects.tasks"
                        THEN <<"asana.projects.find_by_id">>
                        ELSE <<"asana.projects.find_by_id",
                               "asana.projects.tasks">>)
                    \o <<call, "raise">>
    /\ pc' = "failed"
    /\ mpc' = "aborted"
    /\ UNCHANGED <<project_tasks_json, api_stories, section_filters,
                   task_filters, task_comments, sections, commentVars, cli,
                   args, mail_failure>>

\* lines 531-533
MainGenerateTemplates ==
    /\ mpc = "project"
    /\ trace' = trace \o GenerateTemplates(args.skip_inline_css)
    /\ mpc' = "rendered"
    /\ UNCHANGED <<projectVars, commentVars, cli, args, completed_since,
                   mail_failure>>

\* lines 535-543
MainSendEmail ==
    /\ mpc = "rendered"
    /\ SendsEmail(args)
    /\ \E failure \in MailFailures(args) :
          /\ mail_failure' = failure
          /\ trace' = trace \o SendEmail(failure)
          /\ mpc' = IF SendEmailReturns(failure) THEN "delivered"
                    ELSE "aborted"
    /\ UNCHANGED <<projectVars, commentVars, cli, args, completed_since>>

\* lines 544-545
MainWriteRenderedFiles ==
    /\ mpc = "rendered"
    /\ ~SendsEmail(args)
    /\ trace' = Append(trace, "write_rendered_files")
    /\ mpc' = "delivered"
    /\ UNCHANGED <<projectVars, commentVars, cli, args, completed_since,
                   mail_failure>>

\* line 546
MainFinish ==
    /\ mpc = "delivered"
    /\ trace' = Append(trace, "log.info: Finished")
    /\ mpc' = "finished"
    /\ UNCHANGED <<projectVars, commentVars, cli, args, completed_since,
                   mail_failure>>

NextMain ==
    \/ MainParseArgs
    \/ MainCreateProject
    \/ MainCreateProjectFails
    \/ MainGenerateTemplates
    \/ MainSendEmail
    \/ MainWriteRenderedFiles
    \/ MainFinish

SpecMain == InitMain /\ [][NextMain]_vars

\* main runs its statements one after the other: a step that can be taken
\* is taken
SpecMainFair == SpecMain /\ WF_vars(NextMain)

(***************************************************************************)
(* Properties of Project.create_project and Section.create_sections,       *)
(* checked under Spec.                                                     *)
(***************************************************************************)
IsMarker(i) == EndsWithColon(project_tasks_json[i].name)
Markers == {i \in DOMAIN project_tasks_json : IsMarker(i)}

\* the marker a record belongs to: the nearest one before it, 0 when none
Owner(i) ==
    LET before == {m \in Markers : m < i}
    IN  IF before = {} THEN 0
        ELSE CHOOSE m \in before : \A k \in before : k <= m

\* the comment dict when comments are fetched for every task
AllComments ==
    LET have == {i \in DOMAIN project_tasks_json :
                    \E k \in DOMAIN api_stories[i] :
                        api_stories[i][k].type = "comment"}
    IN  [i \in have |-> CommentStories(api_stories[i])]

\* the records of marker o (0: before any marker), parsed, in source order
RECURSIVE SegmentFrom(_, _, _)
SegmentFrom(o, i, comments) ==
    IF i > Len(project_tasks_json) THEN <<>>
    ELSE IF ~IsMarker(i) /\ Owner(i) = o
    THEN <<ParseTask(project_tasks_json[i], comments)>>
         \o SegmentFrom(o, i + 1, comments)
    ELSE SegmentFrom(o, i + 1, comments)

Segment(o, comments) == SegmentFrom(o, 1, comments)

SegmentSection(o, comments) ==
    [name |-> IF o = 0 THEN MiscName ELSE project_tasks_json[o].name,
     tasks |-> Segment(o, comments),
     oid |-> o]

\* the sections the records call for: one per marker (and one for the
\* records before any marker) that has at least one task
SegmentSections(comments) ==
    {SegmentSection(o, comments) :
        o \in {m \in Markers \cup {0} : Segment(m, comments) # <<>>}}

\* the Project obtained by fetching every comment, sectioning and filtering
FetchEverythingProject ==
    FilterTasks(CreateSections(project_tasks_json, AllComments),
                section_filters, task_filters)

\* C1: the Project returned by create_project equals the one obtained by
\* fetching the comments of every task and then sectioning and filtering.
C1_EarlyFilterIsTransparent ==
    pc = "done" => sections = FetchEverythingProject

\* C2: create_sections puts every record whose name does not end with ':'
\* exactly once in the output, in the section of its nearest preceding
\* marker (Misc when there is none), and no marker becomes a task.
C2_EveryTaskInItsSection ==
    pc = "sectioned" =>
        /\ Range(sections) = SegmentSections(task_comments)
        /\ Len(sections) = Cardinality(SegmentSections(task_comments))
        /\ \A i \in DOMAIN sections : \A k \in DOMAIN sections[i].tasks :
              ~EndsWithColon(sections[i].tasks[k].name)

\* C3: every section returned by create_sections has at least one task.
C3_NoEmptySection ==
    pc = "sectioned" => \A i \in DOMAIN sections : sections[i].tasks # <<>>

\* consecutive markers, a trailing marker, and a section in the output
C3_Witness ==
    /\ pc = "sectioned"
    /\ sections # <<>>
    /\ \E i \in DOMAIN project_tasks_json :
          i + 1 \in DOMAIN project_tasks_json /\ IsMarker(i) /\ IsMarker(i + 1)
    /\ IsMarker(Len(project_tasks_json))

\* C10: the named sections come in the order of their markers; the implicit
\* Misc section is in the output once when a task precedes every marker and
\* not at all otherwise, and is last when present.
C10_SectionOrder ==
    pc = "sectioned" =>
        /\ \A i, j \in DOMAIN sections :
              (i < j /\ sections[i].oid # 0 /\ sections[j].oid # 0)
                  => sections[i].oid < sections[j].oid
        /\ Cardinality({i \in DOMAIN sections : sections[i].oid = 0})
              = IF Segment(0, task_comments) # <<>> THEN 1 ELSE 0
        /\ \A i \in DOMAIN sections :
              sections[i].oid = 0 => i = Len(sections)

\* Misc is the only section and the last one scanned
C10_Witness ==
    /\ pc = "sectioned"
    /\ Markers = {}
    /\ Len(sections) = 1
    /\ sections[1].oid = 0

(***************************************************************************)
(* Properties of Project.filter_tasks, checked under SpecFilter.           *)
(***************************************************************************)
\* the task carries every tag of T
HasAllTags(task, T) ==
    \A tag \in T : \E k \in DOMAIN task.tags : task.tags[k] = tag

\* the tasks of ts, in order, that carry every tag of T
RECURSIVE TasksWithTags(_, _)
TasksWithTags(ts, T) ==
    IF ts = <<>> THEN <<>>
    ELSE IF HasAllTags(Head(ts), T)
    THEN <<Head(ts)>> \o TasksWithTags(Tail(ts), T)
    ELSE TasksWithTags(Tail(ts), T)

\* the sections of secs, in order, that are named in S (any when S is
\* empty) and keep a task, each with the tasks it keeps
RECURSIVE Retained(_, _, _)
Retained(secs, S, T) ==
    IF secs = <<>> THEN <<>>
    ELSE LET s == Head(secs)
             kept == TasksWithTags(s.tasks, T)
         IN  IF (S = {} \/ s.name \in S) /\ kept # <<>>
             THEN <<[s EXCEPT !.tasks = kept]>> \o Retained(Tail(secs), S, T)
             ELSE Retained(Tail(secs), S, T)

\* C4: filter_tasks leaves the sections named in S (all when S is empty),
\* in order, each with its tasks whose tags include T, in order, without
\* the sections left empty; so every retained section has a task.
C4_FilterTasksResult ==
    [][(pc = "sectioned" /\ pc' = "done") =>
          /\ sections' = Retained(sections, section_filters, task_filters)
          /\ \A i \in DOMAIN sections' : sections'[i].tasks # <<>>]_vars

\* both filters are supplied and a section is retained
C4_Witness ==
    /\ pc = "done"
    /\ project_tasks_json = <<>>
    /\ section_filters # {}
    /\ task_filters = FilterTags
    /\ sections # <<>>

\* the three steps of filter_tasks in their six orders, named by the order
\* in which they are applied: S the section filter, T the tag filter, P the
\* removal of empty sections
OrderSTP(secs, S, T) == RemoveEmpty(FilterSectionTasks(FilterSections(secs, S), T))
OrderTSP(secs, S, T) == RemoveEmpty(FilterSections(FilterSectionTasks(secs, T), S))
OrderTPS(secs, S, T) == FilterSections(RemoveEmpty(FilterSectionTasks(secs, T)), S)
OrderSPT(secs, S, T) == FilterSectionTasks(RemoveEmpty(FilterSections(secs, S)), T)
OrderPST(secs, S, T) == FilterSectionTasks(FilterSections(RemoveEmpty(secs), S), T)
OrderPTS(secs, S, T) == FilterSections(FilterSectionTasks(RemoveEmpty(secs), T), S)

\* C11: the section filter, the tag filter and the removal of empty
\* sections commute: applied in any of their six orders they yield the
\* section/task tree that filter_tasks yields.
C11_StepsCommute ==
    [][(pc = "sectioned" /\ pc' = "done") =>
          /\ sections' = OrderSTP(sections, section_filters, task_filters)
          /\ sections' = OrderTSP(sections, section_filters, task_filters)
          /\ sections' = OrderTPS(sections, section_filters, task_filters)
          /\ sections' = OrderSPT(sections, section_filters, task_filters)
          /\ sections' = OrderPST(sections, section_filters, task_filters)
          /\ sections' = OrderPTS(sections, section_filters, task_filters)]_vars

\* C11 as amended: the three orders in which the removal of empty sections
\* comes after the tag filter yield the tree that filter_tasks yields; the
\* other three yield that tree once the sections the tag filter emptied
\* are removed from their result.
C11_PruneAfterTagFilter ==
    [][(pc = "sectioned" /\ pc' = "done") =>
          /\ sections' = OrderSTP(sections, section_filters, task_filters)
          /\ sections' = OrderTSP(sections, section_filters, task_filters)
          /\ sections' = OrderTPS(sections, section_filters, task_filters)
          /\ sections' = RemoveEmpty(
                OrderSPT(sections, section_filters, task_filters))
          /\ sections' = RemoveEmpty(
                OrderPST(sections, section_filters, task_filters))
          /\ sections' = RemoveEmpty(
                OrderPTS(sections, section_filters, task_filters))]_vars

\* a section filter and a tag filter were applied and one section with
\* more than one task is retained
C11_Witness ==
    /\ pc = "done"
    /\ project_tasks_json = <<>>
    /\ section_filters = {NameA}
    /\ task_filters = {"y"}
    /\ Len(sections) = 1
    /\ Len(sections[1].tasks) > 1

(***************************************************************************)
(* Properties of the comment filters, checked under SpecComments.          *)
(***************************************************************************)
\* the positions of the comments less than h hours old at time t
RecentPositions(l, t, h) ==
    {i \in DOMAIN l : t - l[i].created_at < h * TicksPerHour}

\* r holds exactly the comments of l at the positions P, in the order of l
IsSelection(r, l, P) ==
    /\ Len(r) = Cardinality(P)
    /\ \A k \in DOMAIN r : r[k].id \in P /\ r[k] = l[r[k].id]
    /\ \A j, k \in DOMAIN r : j < k => r[j].id < r[k].id

\* C7: comments_within_lookback returns, in order, the comments less than
\* hours old; when there is none, the last comment alone, or nothing for an
\* empty list; and it leaves its input as it was.
C7_WithinLookbackResult ==
    [][(cpc' = "comments_within_lookback" /\ task_in # NoneVal) =>
          LET l == task_in[1]
              P == RecentPositions(l, now, hours)
          IN  /\ result'.exc = ""
              /\ IF P # {} THEN IsSelection(result'.value, l, P)
                 ELSE IF l # <<>> THEN result'.value = <<l[Len(l)]>>
                 ELSE result'.value = <<>>
              /\ l # <<>> => result'.value # <<>>
              /\ task_in' = task_in]_vars

\* a comment exactly hours old is left out while a younger one is returned
C7_Witness ==
    /\ cpc = "comments_within_lookback"
    /\ task_in # NoneVal
    /\ hours > 0
    /\ \E i \in DOMAIN task_in[1] :
          /\ now - task_in[1][i].created_at = hours * TicksPerHour
          /\ \A k \in DOMAIN result.value : result.value[k].id # i
    /\ result.value # <<>>
    /\ Len(result.value) < Len(task_in[1])
    /\ RecentPositions(task_in[1], now, hours) # {}

\* n clamped to [1, len]
Clamped(n, len) == IF n < 1 THEN 1 ELSE IF n > len THEN len ELSE n

\* C8: most_recent_comments returns the last k comments in order, k being n
\* clamped to [1, len(comments)], and the empty list (no error) for an
\* empty list and for absent comments.
C8_MostRecentResult ==
    cpc = "most_recent_comments" =>
        /\ result.exc = ""
        /\ IF task_in = NoneVal THEN result.value = <<>>
           ELSE LET l == task_in[1]
                    k == Clamped(num_comments, Len(l))
                IN  IF l = <<>> THEN result.value = <<>>
                    ELSE result.value = [i \in 1..k |-> l[Len(l) - k + i]]

(***************************************************************************)
(* Properties of main, checked under SpecMain and SpecMainFair.            *)
(***************************************************************************)
Count(call) == Cardinality({i \in DOMAIN trace : trace[i] = call})

\* every occurrence of call a precedes every occurrence of call b
Precedes(a, b) ==
    \A i, j \in DOMAIN trace : (trace[i] = a /\ trace[j] = b) => i < j

\* an address option counts as supplied when its value is not empty
FromSupplied == BoolStr(cli.from_address)
ToSupplied == BoolList(cli.to_addresses)

\* C5: with exactly one of the sender and the recipients supplied the run
\* is rejected before any API call, rendering or delivery; otherwise a run
\* that reaches delivery invokes exactly one of send_email and
\* write_rendered_files, once, send_email iff both were supplied, after
\* the project was fetched and both templates were rendered.
C5_OneDeliveryMode ==
    LET sends == Count("send_email")
        writes == Count("write_rendered_files")
    IN  /\ (mpc # "start" /\ FromSupplied # ToSupplied) =>
              (mpc = "rejected" /\ trace = <<"parser.error">>)
        /\ FromSupplied = ToSupplied => mpc # "rejected"
        /\ sends + writes <= 1
        /\ mpc \in {"delivered", "finished"} => sends + writes = 1
        /\ sends = 1 => (FromSupplied /\ ToSupplied)
        /\ writes = 1 => ~(FromSupplied /\ ToSupplied)
        /\ \A d \in {"send_email", "write_rendered_files"} :
              Count(d) = 1 =>
                 /\ Count("asana.projects.find_by_id") = 1
                 /\ Count("asana.projects.tasks") = 1
                 /\ Count("html.render") = 1
                 /\ Count("plaintext.render") = 1
                 /\ Precedes("asana.projects.find_by_id", d)
                 /\ Precedes("asana.projects.tasks", d)
                 /\ Precedes("asana.tasks.stories", d)
                 /\ Precedes("html.render", d)
                 /\ Precedes("plaintext.render", d)
                 /\ pc = "done"

\* both addresses supplied, the mail sent, the run finished
C5_Witness ==
    /\ mpc = "finished"
    /\ FromSupplied
    /\ ToSupplied
    /\ Count("send_email") = 1
    /\ Count("asana.tasks.stories") > 0

MailLogged == Count("log.exception: Email could not be sent!") = 1

\* an API call of create_project raised
ApiFailed == pc = "failed"

ApiErrorAborts ==
    ApiFailed =>
        /\ mpc = "aborted"
        /\ Count("html.render") = 0
        /\ Count("premailer.transform") = 0
        /\ Count("plaintext.render") = 0
        /\ Count("send_email") = 0
        /\ Count("write_rendered_files") = 0
        /\ Count("log.info: Finished") = 0

\* C6: every error raised inside send_email while connecting, logging in
\* or sending, socket-level ones included, is caught and logged and the
\* run does not raise; an error of an API call of create_project aborts
\* the run before any rendering or delivery.
C6_EveryMailErrorCaught ==
    /\ mail_failure.kind # "none" =>
          (mpc \in {"delivered", "finished"} /\ MailLogged)
    /\ ApiErrorAborts

C6_Safety ==
    /\ mail_failure.kind = "SMTPException" =>
          (mpc \in {"delivered", "finished"} /\ MailLogged)
    /\ (mail_failure.kind # "none" /\ mail_failure.kind # "SMTPException") =>
          (mpc = "aborted" /\ ~MailLogged /\ Count("log.info: Finished") = 0)
    /\ ApiErrorAborts

\* C6 as amended: an smtplib.SMTPException raised inside send_email is
\* caught and logged and the run reaches its 'Finished' end; any other
\* exception raised there propagates and ends the run before 'Finished';
\* an error of an API call aborts the run before rendering and delivery.
C6_SmtpErrorsCaught ==
    /\ []C6_Safety
    /\ (mail_failure.kind = "SMTPException") ~> (mpc = "finished")

\* the login raised an SMTPException and the run finished
C6_Witness ==
    /\ mpc = "finished"
    /\ mail_failure = [stage |-> "login", kind |-> "SMTPException"]
    /\ MailLogged

\* C9: premailer.transform is applied to the rendered HTML unless
\* -i/--skip-inline-css is on the command line.
C9_InlinedUnlessSkipped ==
    mpc \in {"rendered", "delivered", "finished"} =>
        (Count("premailer.transform") = 1 <=> ~cli.skip_inline_css)

\* projects.tasks was called, or was about to be called, with tasks_params
TasksParamsBuilt == completed_since.kind # "unset"

\* C12: the completed_since parameter of the task-list fetch is the cutoff
\* (current time minus the lookback hours, microseconds dropped) whenever
\* -c/--completed is given, for every integer including 0, and is 'now'
\* only when it is not given.
C12_CutoffWheneverProvided ==
    TasksParamsBuilt =>
        IF cli.completed_lookback_hours # NoneVal
        THEN /\ completed_since.kind = "cutoff"
             /\ completed_since.at.ticks =
                   now.ticks - cli.completed_lookback_hours[1] * TicksPerHour
             /\ completed_since.at.microsecond = 0
        ELSE completed_since.kind = "now"

====
